---- MODULE Spec2Model ----
(***************************************************************************)
(* Ford-Johnson (merge-insert) sorter of ex02/PmergeMe.cpp: the Jacobsthal *)
(* generator, the insertion-order planner, the pairwise chain builder, the *)
(* base-case insertion sort and the two drivers (std::vector, std::deque)  *)
(* that PmergeMe::sort() runs one after the other.                         *)
(*                                                                         *)
(* C++ containers are sequences; the C++ index i is the TLA+ index i + 1.  *)
(***************************************************************************)
EXTENDS Integers, Sequences, FiniteSets, Bags, TLC

VARIABLES
    argv,            \* main: argv[1..argc-1], each token a sequence of characters
    input,           \* the list both containers hold when sort() is entered
    vectorData,      \* PmergeMe::_vectorData
    dequeData,       \* PmergeMe::_dequeData
    basicVectorData, \* ex02_basic: PmergeMe::_vectorData
    basicDequeData,  \* ex02_basic: PmergeMe::_dequeData
    pc,              \* position of the program
    pairs,           \* mergeInsertSort*: vector<pair<int,int>> pairs
    straggler,       \* mergeInsertSort*: int straggler
    mainChain,       \* mergeInsertSort*: mainChain
    pend,            \* mergeInsertSort*: pend
    insertionOrder,  \* mergeInsertSort*: vector<size_t> insertionOrder
    j,               \* mergeInsertSort*: index of the pend insertion loop
    pendSize,        \* generateJacobsthalInsertionOrder: pendSize
    order,           \* generateJacobsthalInsertionOrder: order (by reference)
    inserted,        \* generateJacobsthalInsertionOrder: vector<bool> inserted
    jacobsthalNums,  \* generateJacobsthalInsertionOrder: jacobsthalNums
    index,           \* generateJacobsthalInsertionOrder: index of the while loop
    blk,             \* generateJacobsthalInsertionOrder: i of the group loop
    jj,              \* generateJacobsthalInsertionOrder: j of the inner loop
    prevJacob,       \* generateJacobsthalInsertionOrder: prevJacob
    rest,            \* generateJacobsthalInsertionOrder: i of the last loop
    retPlan,         \* where generateJacobsthalInsertionOrder returns to
    jacArg,          \* jacobsthal: n
    jacI,            \* jacobsthal: i
    prev2,           \* jacobsthal: prev2
    prev1,           \* jacobsthal: prev1
    current,         \* jacobsthal: current
    jacRet,          \* jacobsthal: the value returned
    retJac           \* where jacobsthal returns to

basicVars == <<basicVectorData, basicDequeData>>

dataVars == <<argv, input, vectorData, dequeData, basicVars>>

localVars == <<pairs, straggler, mainChain, pend, insertionOrder, j>>

planVars == <<pendSize, order, inserted, jacobsthalNums, index, blk, jj,
              prevJacob, rest, retPlan>>

jacVars == <<jacArg, jacI, prev2, prev1, current, jacRet, retJac>>

vars == <<dataVars, pc, localVars, planVars, jacVars>>

(***************************************************************************)
(* Bounds of the explored inputs.                                          *)
(***************************************************************************)
MaxVal == 3      \* free input positions take a value of {-1, 0, 3, ..., 3 * MaxVal}
ShortLen == 3    \* every list of length 0..ShortLen over those values
MaxLen == 14     \* longest input list
FreeTail == 2    \* free trailing positions of a long input
NumPat == 4      \* fixed scrambles for the leading positions of a long input
MaxPend == 45    \* largest pendSize handed to the planner on its own
MaxN == 70       \* largest n handed to jacobsthal on its own

(***************************************************************************)
(* size_t: 64 bits, held as four 16-bit limbs, least significant first.    *)
(***************************************************************************)
LimbBase == 2^16

ToU64(x) == <<x % LimbBase, (x \div LimbBase) % LimbBase, 0, 0>>

\* the value of a size_t below 2^31
U64ToNat(a) == a[1] + a[2] * LimbBase

\* a + b on size_t: the carry out of the top limb is lost (mod 2^64)
U64Add(a, b) ==
    LET s1 == a[1] + b[1]
        s2 == a[2] + b[2] + (s1 \div LimbBase)
        s3 == a[3] + b[3] + (s2 \div LimbBase)
        s4 == a[4] + b[4] + (s3 \div LimbBase)
    IN  <<s1 % LimbBase, s2 % LimbBase, s3 % LimbBase, s4 % LimbBase>>

\* a < b on size_t
U64Less(a, b) ==
    \E k \in 1..4 : a[k] < b[k] /\ \A m \in (k + 1)..4 : a[m] = b[m]

(***************************************************************************)
(* PmergeMe::jacobsthal                                                    *)
(***************************************************************************)
\* faulty variant of the loop body: current = prev1 + prev2, the factor 2 forgotten
JacobsthalSumNoDouble(p1, p2) == U64Add(p1, p2)

\* current = prev1 + 2 * prev2
JacobsthalSum(p1, p2) == U64Add(p1, U64Add(p2, p2))

\* if (n == 0) return 0;  if (n == 1) return 1;  prev2 = 0, prev1 = 1, current = 1
JacEntry ==
    /\ pc = "jac_entry"
    /\ IF jacArg = 0 \/ jacArg = 1
       THEN /\ jacRet' = ToU64(jacArg)
            /\ pc' = retJac
            /\ UNCHANGED <<jacI, prev2, prev1, current>>
       ELSE /\ prev2' = ToU64(0)
            /\ prev1' = ToU64(1)
            /\ current' = ToU64(1)
            /\ jacI' = 2
            /\ pc' = "jac_loop"
            /\ UNCHANGED jacRet
    /\ UNCHANGED <<dataVars, localVars, planVars, jacArg, retJac>>

\* one pass of for (i = 2; i <= n; ++i)
JacLoop ==
    /\ pc = "jac_loop"
    /\ jacI <= jacArg
    /\ current' = JacobsthalSum(prev1, prev2)
    /\ prev2' = prev1
    /\ prev1' = current'
    /\ jacI' = jacI + 1
    /\ UNCHANGED <<dataVars, pc, localVars, planVars, jacArg, jacRet, retJac>>

\* return current
JacReturn ==
    /\ pc = "jac_loop"
    /\ ~(jacI <= jacArg)
    /\ jacRet' = current
    /\ pc' = retJac
    /\ UNCHANGED <<dataVars, localVars, planVars, jacArg, jacI, prev2, prev1,
                   current, retJac>>

(***************************************************************************)
(* PmergeMe::generateJacobsthalInsertionOrder                              *)
(***************************************************************************)
\* faulty variant of the entry: the thresholds start at J(2) instead of J(3)
PlanEntryFromJ2 ==
    /\ pc = "plan_entry"
    /\ IF pendSize = 0
       THEN /\ pc' = retPlan
            /\ UNCHANGED <<order, inserted, jacobsthalNums, index>>
       ELSE /\ order' = <<>>
            /\ inserted' = [k \in 1..pendSize |-> FALSE]
            /\ jacobsthalNums' = <<>>
            /\ index' = 2
            /\ pc' = "plan_while"
    /\ UNCHANGED <<dataVars, localVars, pendSize, blk, jj, prevJacob, rest,
                   retPlan, jacVars>>

\* if (pendSize == 0) return;  order.clear();  inserted(pendSize, false);  index = 3
PlanEntry ==
    /\ pc = "plan_entry"
    /\ IF pendSize = 0
       THEN /\ pc' = retPlan
            /\ UNCHANGED <<order, inserted, jacobsthalNums, index>>
       ELSE /\ order' = <<>>
            /\ inserted' = [k \in 1..pendSize |-> FALSE]
            /\ jacobsthalNums' = <<>>
            /\ index' = 3
            /\ pc' = "plan_while"
    /\ UNCHANGED <<dataVars, localVars, pendSize, blk, jj, prevJacob, rest,
                   retPlan, jacVars>>

\* while (true): size_t jNum = jacobsthal(index), the call
PlanCallJacobsthal ==
    /\ pc = "plan_while"
    /\ jacArg' = index
    /\ retJac' = "plan_jnum"
    /\ pc' = "jac_entry"
    /\ UNCHANGED <<dataVars, localVars, planVars, jacI, prev2, prev1, current,
                   jacRet>>

\* if (jNum >= pendSize) { push_back(pendSize - 1); break; }  push_back(jNum); ++index
PlanThreshold ==
    /\ pc = "plan_jnum"
    /\ IF ~U64Less(jacRet, ToU64(pendSize))
       THEN /\ jacobsthalNums' = Append(jacobsthalNums, pendSize - 1)
            /\ prevJacob' = 0
            /\ blk' = 0
            /\ pc' = "plan_groups"
            /\ UNCHANGED index
       ELSE /\ jacobsthalNums' = Append(jacobsthalNums, U64ToNat(jacRet))
            /\ index' = index + 1
            /\ pc' = "plan_while"
            /\ UNCHANGED <<prevJacob, blk>>
    /\ UNCHANGED <<dataVars, localVars, pendSize, order, inserted, jj, rest,
                   retPlan, jacVars>>

\* for (i = 0; i < jacobsthalNums.size(); ++i): currentJacob, j = currentJacob
PlanGroupStart ==
    /\ pc = "plan_groups"
    /\ blk < Len(jacobsthalNums)
    /\ jj' = jacobsthalNums[blk + 1]
    /\ pc' = "plan_group"
    /\ UNCHANGED <<dataVars, localVars, pendSize, order, inserted,
                   jacobsthalNums, index, blk, prevJacob, rest, retPlan, jacVars>>

\* faulty variant of the inner loop: j >= prevJacob, the block reaches the
\* previous threshold itself
PlanGroupStepInclusive ==
    /\ pc = "plan_group"
    /\ jj >= prevJacob
    /\ IF jj < pendSize /\ ~inserted[jj + 1]
       THEN /\ order' = Append(order, jj)
            /\ inserted' = [inserted EXCEPT ![jj + 1] = TRUE]
       ELSE UNCHANGED <<order, inserted>>
    /\ jj' = jj - 1
    /\ UNCHANGED <<dataVars, pc, localVars, pendSize, jacobsthalNums, index,
                   blk, prevJacob, rest, retPlan, jacVars>>

\* one pass of for (j = currentJacob; j > prevJacob; --j)
PlanGroupStep ==
    /\ pc = "plan_group"
    /\ jj > prevJacob
    /\ IF jj < pendSize /\ ~inserted[jj + 1]
       THEN /\ order' = Append(order, jj)
            /\ inserted' = [inserted EXCEPT ![jj + 1] = TRUE]
       ELSE UNCHANGED <<order, inserted>>
    /\ jj' = jj - 1
    /\ UNCHANGED <<dataVars, pc, localVars, pendSize, jacobsthalNums, index,
                   blk, prevJacob, rest, retPlan, jacVars>>

\* the inner loop ends: prevJacob = currentJacob; ++i
PlanGroupEnd ==
    /\ pc = "plan_group"
    /\ ~(jj > prevJacob)
    /\ prevJacob' = jacobsthalNums[blk + 1]
    /\ blk' = blk + 1
    /\ pc' = "plan_groups"
    /\ UNCHANGED <<dataVars, localVars, pendSize, order, inserted,
                   jacobsthalNums, index, jj, rest, retPlan, jacVars>>

\* the group loop ends; the last loop starts at i = 0
PlanGroupsEnd ==
    /\ pc = "plan_groups"
    /\ ~(blk < Len(jacobsthalNums))
    /\ rest' = 0
    /\ pc' = "plan_rest"
    /\ UNCHANGED <<dataVars, localVars, pendSize, order, inserted,
                   jacobsthalNums, index, blk, jj, prevJacob, retPlan, jacVars>>

\* faulty variant of the last loop: the inserted[] test forgotten
PlanRestStepUnmarked ==
    /\ pc = "plan_rest"
    /\ rest < pendSize
    /\ order' = Append(order, rest)
    /\ rest' = rest + 1
    /\ UNCHANGED <<dataVars, pc, localVars, pendSize, inserted, jacobsthalNums,
                   index, blk, jj, prevJacob, retPlan, jacVars>>

\* one pass of for (i = 0; i < pendSize; ++i) if (!inserted[i]) order.push_back(i)
PlanRestStep ==
    /\ pc = "plan_rest"
    /\ rest < pendSize
    /\ order' = IF ~inserted[rest + 1] THEN Append(order, rest) ELSE order
    /\ rest' = rest + 1
    /\ UNCHANGED <<dataVars, pc, localVars, pendSize, inserted, jacobsthalNums,
                   index, blk, jj, prevJacob, retPlan, jacVars>>

\* the last loop ends: the function returns
PlanReturn ==
    /\ pc = "plan_rest"
    /\ ~(rest < pendSize)
    /\ pc' = retPlan
    /\ UNCHANGED <<dataVars, localVars, planVars, jacVars>>

(***************************************************************************)
(* PmergeMe::insertionSortVector / insertionSortDeque                      *)
(***************************************************************************)
\* while (j >= left && arr[j] > key) { arr[j+1] = arr[j]; --j; } arr[j+1] = key
RECURSIVE ShiftInsert(_, _, _, _)
ShiftInsert(arr, k, key, left) ==
    IF k >= left /\ arr[k + 1] > key
    THEN ShiftInsert([arr EXCEPT ![k + 2] = arr[k + 1]], k - 1, key, left)
    ELSE [arr EXCEPT ![k + 2] = key]

RECURSIVE InsertionLoop(_, _, _, _)
InsertionLoop(arr, i, left, right) ==
    IF i <= right
    THEN InsertionLoop(ShiftInsert(arr, i - 1, arr[i + 1], left), i + 1, left, right)
    ELSE arr

insertionSortVector(arr, left, right) == InsertionLoop(arr, left + 1, left, right)

insertionSortDeque(arr, left, right) == InsertionLoop(arr, left + 1, left, right)

(***************************************************************************)
(* Pieces of mergeInsertSortVector / mergeInsertSortDeque                  *)
(***************************************************************************)
\* faulty variant of the threshold: n < 10
BaseCaseBelowTen(n) == n < 10

\* if (n <= 10): the base case
BaseCase(n) == n <= 10

\* faulty variant of the pairing loop: the two elements are never swapped
RECURSIVE PairLoopNoSwap(_, _, _)
PairLoopNoSwap(arr, i, ps) ==
    IF i + 1 < Len(arr)
    THEN PairLoopNoSwap(arr, i + 2,
                        Append(ps, [first |-> arr[i + 1], second |-> arr[i + 2]]))
    ELSE ps

\* for (i = 0; i + 1 < n; i += 2): the pair (smaller, larger) of arr[i], arr[i+1]
RECURSIVE PairLoop(_, _, _)
PairLoop(arr, i, ps) ==
    IF i + 1 < Len(arr)
    THEN PairLoop(arr, i + 2,
                  Append(ps, IF arr[i + 1] > arr[i + 2]
                             THEN [first |-> arr[i + 2], second |-> arr[i + 1]]
                             ELSE [first |-> arr[i + 1], second |-> arr[i + 2]]))
    ELSE ps

\* the value of i when that loop ends
PairLoopEnd(arr) == 2 * (Len(arr) \div 2)

\* faulty variant of the capture: if (i + 1 < n), the test of the pairing loop
StragglerOfNeverTaken(arr) ==
    IF PairLoopEnd(arr) + 1 < Len(arr) THEN arr[PairLoopEnd(arr) + 1] ELSE -1

\* int straggler = -1; if (i < n) straggler = arr[i];
StragglerOf(arr) ==
    IF PairLoopEnd(arr) < Len(arr) THEN arr[PairLoopEnd(arr) + 1] ELSE -1

\* faulty variant of the pair sort: the pairs are compared by their smaller element
RECURSIVE PairShiftInsertByFirst(_, _, _)
PairShiftInsertByFirst(ps, k, key) ==
    IF k >= 0 /\ ps[k + 1].first > key.first
    THEN PairShiftInsertByFirst([ps EXCEPT ![k + 2] = ps[k + 1]], k - 1, key)
    ELSE [ps EXCEPT ![k + 2] = key]

\* while (k >= 0 && pairs[k].second > key.second) { pairs[k+1] = pairs[k]; --k; }
RECURSIVE PairShiftInsert(_, _, _)
PairShiftInsert(ps, k, key) ==
    IF k >= 0 /\ ps[k + 1].second > key.second
    THEN PairShiftInsert([ps EXCEPT ![k + 2] = ps[k + 1]], k - 1, key)
    ELSE [ps EXCEPT ![k + 2] = key]

\* for (j = 1; j < pairs.size(); ++j)
RECURSIVE PairSortLoop(_, _)
PairSortLoop(ps, m) ==
    IF m < Len(ps)
    THEN PairSortLoop(PairShiftInsert(ps, m - 1, ps[m + 1]), m + 1)
    ELSE ps

SortPairs(ps) == PairSortLoop(ps, 1)

\* std::lower_bound over the whole chain: the offset of the returned iterator
RECURSIVE LowerBoundLoop(_, _, _, _)
LowerBoundLoop(chain, first, len, val) ==
    IF len > 0
    THEN LET half == len \div 2
             middle == first + half
         IN  IF chain[middle + 1] < val
             THEN LowerBoundLoop(chain, middle + 1, len - half - 1, val)
             ELSE LowerBoundLoop(chain, first, half, val)
    ELSE first

lower_bound(chain, val) == LowerBoundLoop(chain, 0, Len(chain), val)

\* faulty variant of InsertAt: the element lands one place after the iterator
InsertAtPastIterator(chain, pos, val) ==
    LET q == IF pos < Len(chain) THEN pos + 1 ELSE pos
    IN  SubSeq(chain, 1, q) \o <<val>> \o SubSeq(chain, q + 1, Len(chain))

\* container.insert(begin() + pos, val)
InsertAt(chain, pos, val) ==
    SubSeq(chain, 1, pos) \o <<val>> \o SubSeq(chain, pos + 1, Len(chain))

\* faulty variant of the deque's front insertion: push_back
PushBack(chain, val) == Append(chain, val)

\* std::deque::push_front
PushFront(chain, val) == <<val>> \o chain

\* faulty variant of the loop body: pendIndex = insertionOrder[j], the + 1 forgotten
InsertPendAtNoOffset(chain, pnd, ord, m) ==
    LET pendIndex == ord[m + 1]
    IN  InsertAt(chain, lower_bound(chain, pnd[pendIndex + 1]), pnd[pendIndex + 1])

\* one pass of the pend insertion loop body
InsertPendAt(chain, pnd, ord, m) ==
    LET pendIndex == ord[m + 1] + 1
    IN  InsertAt(chain, lower_bound(chain, pnd[pendIndex + 1]), pnd[pendIndex + 1])

\* if (straggler != -1) insert it at its lower bound
InsertStraggler(chain, s) ==
    IF s # -1 THEN InsertAt(chain, lower_bound(chain, s), s) ELSE chain

(***************************************************************************)
(* Inputs: the lists the two drivers are entered on.  The drivers take any *)
(* std::vector<int> / std::deque<int>, so the free positions range over    *)
(* negative values, 0 and positive values; parseInput itself pushes only   *)
(* values of 1..2147483647 (isValidNumber), and always the same value into *)
(* both containers.                                                        *)
(***************************************************************************)
Values == {-1} \cup {3 * v : v \in 0..MaxVal}

Scramble(k, i) == ((i * k) % 5) + 1

ShortInputs == UNION {[1..n -> Values] : n \in 0..ShortLen}

\* longer lists: a fixed scramble of 1..5, then FreeTail free positions
LongInputs ==
    {[i \in 1..n |-> IF i <= n - FreeTail THEN Scramble(k, i) ELSE t[i - (n - FreeTail)]] :
        n \in (ShortLen + 1)..MaxLen, k \in 1..NumPat, t \in [1..FreeTail -> Values]}

Inputs == ShortInputs \cup LongInputs

(***************************************************************************)
(* sort(): mergeInsertSortVector(_vectorData), then                        *)
(* mergeInsertSortDeque(_dequeData)                                        *)
(***************************************************************************)
NoData ==
    /\ argv = <<>>
    /\ input = <<>>
    /\ vectorData = <<>>
    /\ dequeData = <<>>
    /\ basicVectorData = <<>>
    /\ basicDequeData = <<>>

NoLocals ==
    /\ pairs = <<>>
    /\ straggler = -1
    /\ mainChain = <<>>
    /\ pend = <<>>
    /\ insertionOrder = <<>>
    /\ j = 0

NoPlan ==
    /\ inserted = <<>>
    /\ jacobsthalNums = <<>>
    /\ index = 0
    /\ blk = 0
    /\ jj = 0
    /\ prevJacob = 0
    /\ rest = 0

NoJac ==
    /\ jacI = 0
    /\ prev2 = ToU64(0)
    /\ prev1 = ToU64(0)
    /\ current = ToU64(0)
    /\ jacRet = ToU64(0)

Init ==
    /\ argv = <<>>
    /\ input \in Inputs
    /\ vectorData = input
    /\ dequeData = input
    /\ basicVectorData = input
    /\ basicDequeData = input
    /\ pc = "vec_entry"
    /\ NoLocals
    /\ pendSize = 0 /\ order = <<>> /\ retPlan = "plan_ret" /\ NoPlan
    /\ jacArg = 0 /\ retJac = "jac_ret" /\ NoJac

VecBaseCase ==
    /\ pc = "vec_entry"
    /\ BaseCase(Len(vectorData))
    /\ vectorData' = insertionSortVector(vectorData, 0, Len(vectorData) - 1)
    /\ pc' = "vec_ret"
    /\ UNCHANGED <<argv, input, dequeData, basicVars, localVars, planVars, jacVars>>

VecMakePairs ==
    /\ pc = "vec_entry"
    /\ ~BaseCase(Len(vectorData))
    /\ pairs' = PairLoop(vectorData, 0, <<>>)
    /\ straggler' = StragglerOf(vectorData)
    /\ pc' = "vec_sortPairs"
    /\ UNCHANGED <<dataVars, mainChain, pend, insertionOrder, j, planVars, jacVars>>

VecSortPairs ==
    /\ pc = "vec_sortPairs"
    /\ pairs' = SortPairs(pairs)
    /\ pc' = "vec_build"
    /\ UNCHANGED <<dataVars, straggler, mainChain, pend, insertionOrder, j,
                   planVars, jacVars>>

VecBuildChains ==
    /\ pc = "vec_build"
    /\ mainChain' = [k \in 1..Len(pairs) |-> pairs[k].second]
    /\ pend' = [k \in 1..Len(pairs) |-> pairs[k].first]
    /\ pc' = "vec_first"
    /\ UNCHANGED <<dataVars, pairs, straggler, insertionOrder, j, planVars, jacVars>>

VecInsertFirst ==
    /\ pc = "vec_first"
    /\ mainChain' = IF pend # <<>> THEN InsertAt(mainChain, 0, pend[1]) ELSE mainChain
    /\ pc' = "vec_plan"
    /\ UNCHANGED <<dataVars, pairs, straggler, pend, insertionOrder, j,
                   planVars, jacVars>>

\* if (pend.size() > 1) generateJacobsthalInsertionOrder(pend.size() - 1, insertionOrder)
VecPlan ==
    /\ pc = "vec_plan"
    /\ IF Len(pend) > 1
       THEN /\ pendSize' = Len(pend) - 1
            /\ order' = insertionOrder
            /\ retPlan' = "vec_planned"
            /\ pc' = "plan_entry"
       ELSE /\ pc' = "vec_insert"
            /\ UNCHANGED <<pendSize, order, retPlan>>
    /\ UNCHANGED <<dataVars, localVars, inserted, jacobsthalNums, index, blk, jj,
                   prevJacob, rest, jacVars>>

\* the planner has returned: insertionOrder is what it wrote; j = 0
VecPlanned ==
    /\ pc = "vec_planned"
    /\ insertionOrder' = order
    /\ j' = 0
    /\ pc' = "vec_insert"
    /\ UNCHANGED <<dataVars, pairs, straggler, mainChain, pend, planVars, jacVars>>

VecInsertPend ==
    /\ pc = "vec_insert"
    /\ j < Len(insertionOrder)
    /\ mainChain' = InsertPendAt(mainChain, pend, insertionOrder, j)
    /\ j' = j + 1
    /\ UNCHANGED <<dataVars, pc, pairs, straggler, pend, insertionOrder,
                   planVars, jacVars>>

VecStraggler ==
    /\ pc = "vec_insert"
    /\ ~(j < Len(insertionOrder))
    /\ mainChain' = InsertStraggler(mainChain, straggler)
    /\ pc' = "vec_assign"
    /\ UNCHANGED <<dataVars, pairs, straggler, pend, insertionOrder, j,
                   planVars, jacVars>>

VecAssign ==
    /\ pc = "vec_assign"
    /\ vectorData' = mainChain
    /\ pc' = "vec_ret"
    /\ UNCHANGED <<argv, input, dequeData, basicVars, localVars, planVars, jacVars>>

\* sort(): the vector call has returned, its locals are gone; the deque call starts
CallDeque ==
    /\ pc = "vec_ret"
    /\ pc' = "deq_entry"
    /\ pairs' = <<>>
    /\ straggler' = -1
    /\ mainChain' = <<>>
    /\ pend' = <<>>
    /\ insertionOrder' = <<>>
    /\ j' = 0
    /\ UNCHANGED <<dataVars, planVars, jacVars>>

DeqBaseCase ==
    /\ pc = "deq_entry"
    /\ BaseCase(Len(dequeData))
    /\ dequeData' = insertionSortDeque(dequeData, 0, Len(dequeData) - 1)
    /\ pc' = "deq_ret"
    /\ UNCHANGED <<argv, input, vectorData, basicVars, localVars, planVars, jacVars>>

DeqMakePairs ==
    /\ pc = "deq_entry"
    /\ ~BaseCase(Len(dequeData))
    /\ pairs' = PairLoop(dequeData, 0, <<>>)
    /\ straggler' = StragglerOf(dequeData)
    /\ pc' = "deq_sortPairs"
    /\ UNCHANGED <<dataVars, mainChain, pend, insertionOrder, j, planVars, jacVars>>

DeqSortPairs ==
    /\ pc = "deq_sortPairs"
    /\ pairs' = SortPairs(pairs)
    /\ pc' = "deq_build"
    /\ UNCHANGED <<dataVars, straggler, mainChain, pend, insertionOrder, j,
                   planVars, jacVars>>

DeqBuildChains ==
    /\ pc = "deq_build"
    /\ mainChain' = [k \in 1..Len(pairs) |-> pairs[k].second]
    /\ pend' = [k \in 1..Len(pairs) |-> pairs[k].first]
    /\ pc' = "deq_first"
    /\ UNCHANGED <<dataVars, pairs, straggler, insertionOrder, j, planVars, jacVars>>

DeqInsertFirst ==
    /\ pc = "deq_first"
    /\ mainChain' = IF pend # <<>> THEN PushFront(mainChain, pend[1]) ELSE mainChain
    /\ pc' = "deq_plan"
    /\ UNCHANGED <<dataVars, pairs, straggler, pend, insertionOrder, j,
                   planVars, jacVars>>

DeqPlan ==
    /\ pc = "deq_plan"
    /\ IF Len(pend) > 1
       THEN /\ pendSize' = Len(pend) - 1
            /\ order' = insertionOrder
            /\ retPlan' = "deq_planned"
            /\ pc' = "plan_entry"
       ELSE /\ pc' = "deq_insert"
            /\ UNCHANGED <<pendSize, order, retPlan>>
    /\ UNCHANGED <<dataVars, localVars, inserted, jacobsthalNums, index, blk, jj,
                   prevJacob, rest, jacVars>>

DeqPlanned ==
    /\ pc = "deq_planned"
    /\ insertionOrder' = order
    /\ j' = 0
    /\ pc' = "deq_insert"
    /\ UNCHANGED <<dataVars, pairs, straggler, mainChain, pend, planVars, jacVars>>

DeqInsertPend ==
    /\ pc = "deq_insert"
    /\ j < Len(insertionOrder)
    /\ mainChain' = InsertPendAt(mainChain, pend, insertionOrder, j)
    /\ j' = j + 1
    /\ UNCHANGED <<dataVars, pc, pairs, straggler, pend, insertionOrder,
                   planVars, jacVars>>

DeqStraggler ==
    /\ pc = "deq_insert"
    /\ ~(j < Len(insertionOrder))
    /\ mainChain' = InsertStraggler(mainChain, straggler)
    /\ pc' = "deq_assign"
    /\ UNCHANGED <<dataVars, pairs, straggler, pend, insertionOrder, j,
                   planVars, jacVars>>

DeqAssign ==
    /\ pc = "deq_assign"
    /\ dequeData' = mainChain
    /\ pc' = "deq_ret"
    /\ UNCHANGED <<argv, input, vectorData, basicVars, localVars, planVars, jacVars>>

JacNext ==
    \/ JacEntry
    \/ JacLoop
    \/ JacReturn

PlanNext ==
    \/ PlanEntry
    \/ PlanCallJacobsthal
    \/ PlanThreshold
    \/ PlanGroupStart
    \/ PlanGroupStep
    \/ PlanGroupEnd
    \/ PlanGroupsEnd
    \/ PlanRestStep
    \/ PlanReturn
    \/ JacNext

Next ==
    \/ VecBaseCase
    \/ VecMakePairs
    \/ VecSortPairs
    \/ VecBuildChains
    \/ VecInsertFirst
    \/ VecPlan
    \/ VecPlanned
    \/ VecInsertPend
    \/ VecStraggler
    \/ VecAssign
    \/ CallDeque
    \/ DeqBaseCase
    \/ DeqMakePairs
    \/ DeqSortPairs
    \/ DeqBuildChains
    \/ DeqInsertFirst
    \/ DeqPlan
    \/ DeqPlanned
    \/ DeqInsertPend
    \/ DeqStraggler
    \/ DeqAssign
    \/ PlanNext

Spec == Init /\ [][Next]_vars

(***************************************************************************)
(* ex02_basic/PmergeMe.cpp: the same two drivers, with the pend elements   *)
(* inserted in index order 1, 2, ..., pend.size() - 1 and no planner.  Up  *)
(* to the pend loop and from the straggler on, its text is that of ex02.   *)
(***************************************************************************)
\* faulty variant of the loop: j < pend.size() - 1, the last pend element is left out
RECURSIVE BasicPendLoopShort(_, _, _)
BasicPendLoopShort(chain, pnd, m) ==
    IF m < Len(pnd) - 1
    THEN BasicPendLoopShort(InsertAt(chain, lower_bound(chain, pnd[m + 1]), pnd[m + 1]),
                            pnd, m + 1)
    ELSE chain

\* for (j = 1; j < pend.size(); ++j) insert pend[j] at its lower bound
RECURSIVE BasicPendLoop(_, _, _)
BasicPendLoop(chain, pnd, m) ==
    IF m < Len(pnd)
    THEN BasicPendLoop(InsertAt(chain, lower_bound(chain, pnd[m + 1]), pnd[m + 1]),
                       pnd, m + 1)
    ELSE chain

basicMergeInsertSortVector(arr) ==
    IF BaseCase(Len(arr))
    THEN insertionSortVector(arr, 0, Len(arr) - 1)
    ELSE LET ps == SortPairs(PairLoop(arr, 0, <<>>))
             chain == [k \in 1..Len(ps) |-> ps[k].second]
             pnd == [k \in 1..Len(ps) |-> ps[k].first]
             withFirst == IF pnd # <<>> THEN InsertAt(chain, 0, pnd[1]) ELSE chain
         IN  InsertStraggler(BasicPendLoop(withFirst, pnd, 1), StragglerOf(arr))

basicMergeInsertSortDeque(arr) ==
    IF BaseCase(Len(arr))
    THEN insertionSortDeque(arr, 0, Len(arr) - 1)
    ELSE LET ps == SortPairs(PairLoop(arr, 0, <<>>))
             chain == [k \in 1..Len(ps) |-> ps[k].second]
             pnd == [k \in 1..Len(ps) |-> ps[k].first]
             withFirst == IF pnd # <<>> THEN PushFront(chain, pnd[1]) ELSE chain
         IN  InsertStraggler(BasicPendLoop(withFirst, pnd, 1), StragglerOf(arr))

\* the ex02_basic program is given the list the ex02 program was given
BasicSortEntry ==
    /\ pc = "deq_ret"
    /\ pc' = "basic_vec_entry"
    /\ UNCHANGED <<dataVars, localVars, planVars, jacVars>>

\* ex02_basic sort(): mergeInsertSortVector(_vectorData)
BasicSortVector ==
    /\ pc = "basic_vec_entry"
    /\ basicVectorData' = basicMergeInsertSortVector(basicVectorData)
    /\ pc' = "basic_deq_entry"
    /\ UNCHANGED <<argv, input, vectorData, dequeData, basicDequeData, localVars,
                   planVars, jacVars>>

\* ex02_basic sort(): mergeInsertSortDeque(_dequeData)
BasicSortDeque ==
    /\ pc = "basic_deq_entry"
    /\ basicDequeData' = basicMergeInsertSortDeque(basicDequeData)
    /\ pc' = "basic_ret"
    /\ UNCHANGED <<argv, input, vectorData, dequeData, basicVectorData, localVars,
                   planVars, jacVars>>

BasicNext ==
    \/ BasicSortEntry
    \/ BasicSortVector
    \/ BasicSortDeque

BothNext ==
    \/ Next
    \/ BasicNext

\* the two programs, one after the other, on the same list
BothSpec == Init /\ [][BothNext]_vars

(***************************************************************************)
(* PmergeMe::isValidNumber and PmergeMe::parseInput.  A string is a        *)
(* sequence of one-character strings.  A long is a sign and a magnitude,   *)
(* the magnitude as <<high, low>> in base 10^5 (strings of at most 10      *)
(* digits, so that atol does not overflow the long).                       *)
(***************************************************************************)
Digits == <<"0", "1", "2", "3", "4", "5", "6", "7", "8", "9">>

isdigit(c) == \E d \in 1..10 : Digits[d] = c

DigitValue(c) == (CHOOSE d \in 1..10 : Digits[d] = c) - 1

DecBase == 10^5

\* the run of digits of str from position k on, added to acc
RECURSIVE DigitRun(_, _, _)
DigitRun(str, k, acc) ==
    IF k <= Len(str) /\ isdigit(str[k])
    THEN LET x == acc[2] * 10 + DigitValue(str[k])
         IN  DigitRun(str, k + 1, <<acc[1] * 10 + (x \div DecBase), x % DecBase>>)
    ELSE acc

\* atol: an optional sign, then the leading digits; 0 when there is none
atol(str) ==
    LET signed == str # <<>> /\ str[1] \in {"-", "+"}
    IN  [neg |-> str # <<>> /\ str[1] = "-",
         mag |-> DigitRun(str, IF signed THEN 2 ELSE 1, <<0, 0>>)]

\* atoi, for the strings whose value fits an int
atoi(str) ==
    LET num == atol(str)
        abs == num.mag[1] * DecBase + num.mag[2]
    IN  IF num.neg THEN 0 - abs ELSE abs

\* num <= 0
NotPositive(num) == num.neg \/ num.mag = <<0, 0>>

\* num > 2147483647
AboveIntMax(num) ==
    /\ ~num.neg
    /\ \/ num.mag[1] > 21474
       \/ num.mag[1] = 21474 /\ num.mag[2] > 83647

isValidNumber(str) ==
    IF str = <<>> THEN FALSE
    ELSE IF \E i \in 1..Len(str) : ~isdigit(str[i]) THEN FALSE
    ELSE IF NotPositive(atol(str)) \/ AboveIntMax(atol(str)) THEN FALSE
    ELSE TRUE

\* for (i = 1; i < argc; ++i): the first invalid argument ends the loop with false
RECURSIVE ParseLoop(_, _, _)
ParseLoop(args, i, data) ==
    IF i > Len(args) THEN [ok |-> TRUE, data |-> data]
    ELSE IF ~isValidNumber(args[i]) THEN [ok |-> FALSE, data |-> data]
    ELSE ParseLoop(args, i + 1, Append(data, atoi(args[i])))

\* if (!sorter.parseInput(argc, argv)) return 1;
ParseInput ==
    /\ pc = "main_entry"
    /\ IF Len(argv) < 1
       THEN /\ pc' = "main_exit"
            /\ UNCHANGED <<vectorData, dequeData>>
       ELSE /\ vectorData' = ParseLoop(argv, 1, vectorData).data
            /\ dequeData' = ParseLoop(argv, 1, dequeData).data
            /\ pc' = IF ParseLoop(argv, 1, vectorData).ok THEN "main_parsed"
                     ELSE "main_exit"
    /\ UNCHANGED <<argv, input, basicVars, localVars, planVars, jacVars>>

\* sorter.sort(): input is the list the containers hold at that point
MainCallSort ==
    /\ pc = "main_parsed"
    /\ input' = vectorData
    /\ pc' = "vec_entry"
    /\ UNCHANGED <<argv, vectorData, dequeData, basicVars, localVars, planVars, jacVars>>

\* command lines: tokens that are empty, zero, signed, not a number, with a
\* leading zero, and on both sides of 2147483647
Tokens ==
    {<<>>, <<"0">>, <<"3">>, <<"0", "7">>, <<"-", "1">>, <<"1", "a">>,
     <<"2", "1", "4", "7", "4", "8", "3", "6", "4", "7">>,
     <<"2", "1", "4", "7", "4", "8", "3", "6", "4", "8">>}

ShortArgs == UNION {[1..n -> Tokens] : n \in 0..ShortLen}

LongArgs ==
    {[i \in 1..n |-> IF i <= n - FreeTail THEN <<Digits[Scramble(k, i) + 1]>>
                     ELSE t[i - (n - FreeTail)]] :
        n \in (ShortLen + 1)..MaxLen, k \in 1..NumPat, t \in [1..FreeTail -> Tokens]}

ProgramInit ==
    /\ argv \in ShortArgs \cup LongArgs
    /\ input = <<>>
    /\ vectorData = <<>>
    /\ dequeData = <<>>
    /\ basicVectorData = <<>>
    /\ basicDequeData = <<>>
    /\ pc = "main_entry"
    /\ NoLocals
    /\ pendSize = 0 /\ order = <<>> /\ retPlan = "plan_ret" /\ NoPlan
    /\ jacArg = 0 /\ retJac = "jac_ret" /\ NoJac

ProgramNext ==
    \/ ParseInput
    \/ MainCallSort
    \/ Next

\* main: parseInput, then sort
ProgramSpec == ProgramInit /\ [][ProgramNext]_vars

(***************************************************************************)
(* generateJacobsthalInsertionOrder on its own: one call per pendSize, on  *)
(* an order vector that is empty or already holds something.               *)
(***************************************************************************)
PlanInit ==
    /\ pendSize \in 0..MaxPend
    /\ order \in {<<>>, <<0>>}
    /\ pc = "plan_entry"
    /\ retPlan = "plan_ret"
    /\ NoPlan
    /\ NoData
    /\ NoLocals
    /\ jacArg = 0 /\ retJac = "jac_ret" /\ NoJac

PlanSpec == PlanInit /\ [][PlanNext]_vars

(***************************************************************************)
(* The planner called by the drivers, and the planner on its own.          *)
(***************************************************************************)
DriverOrPlanSpec == (Init \/ PlanInit) /\ [][Next]_vars

(***************************************************************************)
(* jacobsthal on its own: one call per n.                                  *)
(***************************************************************************)
JacInit ==
    /\ jacArg \in 0..MaxN
    /\ pc = "jac_entry"
    /\ retJac = "jac_ret"
    /\ NoJac
    /\ NoData
    /\ NoLocals
    /\ pendSize = 0 /\ order = <<>> /\ retPlan = "plan_ret" /\ NoPlan

JacSpec == JacInit /\ [][JacNext]_vars

(***************************************************************************)
(* Vocabulary of the properties                                            *)
(***************************************************************************)
IsSorted(s) == \A k \in 1..(Len(s) - 1) : s[k] <= s[k + 1]

CountIn(s, v) == Cardinality({k \in DOMAIN s : s[k] = v})

RangeOf(s) == {s[k] : k \in DOMAIN s}

SameMultiset(a, b) ==
    /\ Len(a) = Len(b)
    /\ \A v \in RangeOf(a) \cup RangeOf(b) : CountIn(a, v) = CountIn(b, v)

VecDone == pc \in {"vec_ret", "deq_entry", "deq_sortPairs", "deq_build", "deq_first",
                   "deq_plan", "deq_insert", "deq_assign", "deq_ret"}

DeqDone == pc = "deq_ret"

OddLength == Len(input) % 2 = 1

LastInput == input[Len(input)]

\* C1: for every input list, the sequence each driver leaves in its container
\* has the same multiset of elements as the input (nothing dropped, nothing
\* duplicated).
C1_Permutation ==
    /\ VecDone => SameMultiset(vectorData, input)
    /\ DeqDone => SameMultiset(dequeData, input)

\* C2: after each driver returns, its container is ascending: every adjacent
\* pair satisfies result[i] <= result[i+1], on the insertion-sort path and on
\* the pairing path.
C2_Ascending ==
    /\ VecDone => IsSorted(vectorData)
    /\ DeqDone => IsSorted(dequeData)

C2_Witness ==
    /\ pc = "deq_ret"
    /\ Len(input) > 10
    /\ ~IsSorted(input)
    /\ straggler # -1
    /\ IsSorted(dequeData) /\ IsSorted(vectorData)
    /\ Len(dequeData) = Len(input)

\* C3: for every pendSize >= 1 the planner's output has length pendSize and
\* holds each index of 0..pendSize-1 exactly once.
C3_OrderComplete ==
    (pc = "plan_ret" /\ pendSize >= 1) =>
        /\ Len(order) = pendSize
        /\ \A k \in DOMAIN order : order[k] \in 0..(pendSize - 1)
        /\ \A v \in 0..(pendSize - 1) : CountIn(order, v) = 1

C3_Witness ==
    /\ pc = "plan_ret"
    /\ pendSize = 12
    /\ SubSeq(order, 1, 6) = <<3, 2, 1, 5, 4, 11>>
    /\ order[12] = 0

(***************************************************************************)
(* Natural numbers of any size, as base-2^16 digits, least significant     *)
(* first and without leading zero digits, and the Jacobsthal numbers       *)
(* J(n) = (2^n - (-1)^n) / 3 among them.                                   *)
(***************************************************************************)
RECURSIVE BigAddCarry(_, _, _)
BigAddCarry(a, b, c) ==
    IF a = <<>> /\ b = <<>>
    THEN IF c = 0 THEN <<>> ELSE <<c>>
    ELSE LET x == (IF a = <<>> THEN 0 ELSE Head(a)) + (IF b = <<>> THEN 0 ELSE Head(b)) + c
         IN  <<x % LimbBase>> \o BigAddCarry(IF a = <<>> THEN <<>> ELSE Tail(a),
                                             IF b = <<>> THEN <<>> ELSE Tail(b),
                                             x \div LimbBase)

BigAdd(a, b) == BigAddCarry(a, b, 0)

\* 2^n - 1 for even n, 2^n + 1 for odd n
PowerOfTwoAdjusted(n) ==
    LET top == n \div 16
        bit == 2^(n % 16)
    IN  IF n % 2 = 0
        THEN [k \in 1..(IF bit = 1 THEN top ELSE top + 1) |->
                 IF k <= top THEN LimbBase - 1 ELSE bit - 1]
        ELSE [k \in 1..(top + 1) |->
                 (IF k = top + 1 THEN bit ELSE 0) + (IF k = 1 THEN 1 ELSE 0)]

\* long division by 3 from the top digit down: <<quotient digits, remainder>>
RECURSIVE DivideBy3(_, _)
DivideBy3(b, k) ==
    IF k > Len(b)
    THEN <<<<>>, 0>>
    ELSE LET up == DivideBy3(b, k + 1)
             cur == up[2] * LimbBase + b[k]
         IN  <<<<cur \div 3>> \o up[1], cur % 3>>

Trimmed(b) == IF b # <<>> /\ b[Len(b)] = 0 THEN SubSeq(b, 1, Len(b) - 1) ELSE b

J(n) == Trimmed(DivideBy3(PowerOfTwoAdjusted(n), 1)[1])

\* J is the sequence of the recurrence at n
RecurrenceAt(n) ==
    IF n = 0 THEN J(0) = <<>>
    ELSE IF n = 1 THEN J(1) = <<1>>
    ELSE J(n) = BigAdd(J(n - 1), BigAdd(J(n - 2), J(n - 2)))

\* the low 64 bits of a number
Low64(b) == [k \in 1..4 |-> IF k <= Len(b) THEN b[k] ELSE 0]

FitsU64(b) == Len(b) <= 4

First11 == <<0, 1, 1, 3, 5, 11, 21, 43, 85, 171, 341>>

\* C4 as stated: for every n >= 0, jacobsthal(n) returns J(n).
C4_AsStated ==
    pc = "jac_ret" => (FitsU64(J(jacArg)) /\ jacRet = Low64(J(jacArg)))

\* C4 as amended: jacobsthal(n) returns J(n) mod 2^64 (size_t arithmetic), which
\* is J(n) itself for every n of 0..65; jacobsthal(0..10) is
\* 0,1,1,3,5,11,21,43,85,171,341.
C4_JacobsthalUpTo65 ==
    pc = "jac_ret" =>
        /\ RecurrenceAt(jacArg)
        /\ jacRet = Low64(J(jacArg))
        /\ jacArg <= 65 => FitsU64(J(jacArg))
        /\ jacArg <= 10 => jacRet = ToU64(First11[jacArg + 1])

C4_Witness ==
    /\ pc = "jac_ret"
    /\ jacArg = 65
    /\ jacRet = <<43691, 43690, 43690, 43690>>

(***************************************************************************)
(* Positions of the program on the pairing path                            *)
(***************************************************************************)
InPlanner == pc \in {"plan_entry", "plan_while", "plan_jnum", "plan_groups",
                     "plan_group", "plan_rest", "jac_entry", "jac_loop"}

PairValues == [k \in 1..(2 * Len(pairs)) |->
                  IF k % 2 = 1 THEN pairs[(k + 1) \div 2].first
                  ELSE pairs[k \div 2].second]

\* C5: on the pairing path a straggler is present iff the input length is odd;
\* when present it is the last input element, it is not in the pairs, and after
\* the straggler step it is in the main chain, whatever its value.
C5_Straggler ==
    pc \in {"vec_assign", "deq_assign"} =>
        /\ (straggler # -1) <=> OddLength
        /\ SameMultiset(PairValues, SubSeq(input, 1, 2 * (Len(input) \div 2)))
        /\ OddLength =>
              /\ straggler = LastInput
              /\ Len(mainChain) = 2 * Len(pairs) + 1
              /\ CountIn(mainChain, LastInput) = CountIn(input, LastInput)
        /\ ~OddLength => Len(mainChain) = 2 * Len(pairs)

\* C6: an input of length <= 10 is sorted by the insertion sort alone (no pairs,
\* main chain, pend or insertion order is built, the planner is not run), inputs
\* of length 0 and 1 come back unchanged; an input of length >= 11 goes through
\* pairing, main chain and pend insertion; inputs of length 0, 1, 10 and 11 end
\* ascending.
C6_BaseCaseBoundary ==
    /\ (pc \in {"vec_ret", "deq_ret"} /\ Len(input) <= 10) =>
          /\ NoLocals /\ NoPlan /\ pendSize = 0
          /\ LET data == IF pc = "vec_ret" THEN vectorData ELSE dequeData
             IN  /\ IsSorted(data)
                 /\ SameMultiset(data, input)
                 /\ Len(input) <= 1 => data = input
    /\ (pc \in {"vec_ret", "deq_ret"} /\ Len(input) >= 11) =>
          /\ Len(pairs) = Len(input) \div 2
          /\ Len(pend) = Len(pairs)
          /\ Len(insertionOrder) = Len(pend) - 1
          /\ j = Len(insertionOrder)
          /\ (IF pc = "vec_ret" THEN vectorData ELSE dequeData) = mainChain
          /\ IsSorted(mainChain)
    /\ (pc \notin {"vec_entry", "vec_ret", "deq_entry", "deq_ret"}) => Len(input) >= 11

C6_Witness ==
    /\ pc = "vec_ret"
    /\ Len(input) = 11
    /\ Len(pairs) = 5
    /\ ~IsSorted(input)
    /\ IsSorted(vectorData)

\* C7: when both runs have returned the two containers hold the same sequence,
\* and each container is changed only by steps of its own run, which leave the
\* other container as it is.
C7_ContainerEquivalence ==
    /\ [](pc = "deq_ret" => vectorData = dequeData)
    /\ [][/\ vectorData' # vectorData =>
                (pc \in {"vec_entry", "vec_assign"} /\ dequeData' = dequeData)
          /\ dequeData' # dequeData =>
                (pc \in {"deq_entry", "deq_assign"} /\ vectorData' = vectorData)]_vars

C7_Witness ==
    /\ pc = "deq_ret"
    /\ Len(input) > 10
    /\ vectorData = dequeData
    /\ vectorData # input
    /\ Len(vectorData) = Len(input)

\* C8: on the pairing path the main chain is ascending when first built from the
\* sorted pairs, after pend[0] is put at the front, after each insertion of a
\* pend element, and after the straggler insertion.
C8_MainChainSorted ==
    /\ pc \in {"vec_first", "deq_first"} =>
          (IsSorted(mainChain) /\ Len(mainChain) = Len(pairs))
    /\ (pc \in {"vec_plan", "deq_plan", "vec_planned", "deq_planned"} \/ InPlanner) =>
          (IsSorted(mainChain) /\ Len(mainChain) = Len(pairs) + 1)
    /\ pc \in {"vec_insert", "deq_insert"} =>
          (IsSorted(mainChain) /\ Len(mainChain) = Len(pairs) + 1 + j)
    /\ pc \in {"vec_assign", "deq_assign"} =>
          (IsSorted(mainChain) /\ Len(mainChain) >= 2 * Len(pairs))

C8_Witness ==
    /\ pc = "vec_insert"
    /\ j = 3
    /\ Len(mainChain) = Len(pairs) + 4
    /\ \E k \in 2..(Len(mainChain) - 1) :
          /\ mainChain[k] = pend[insertionOrder[j] + 2]
          /\ mainChain[k - 1] < mainChain[k]
          /\ mainChain[k] < mainChain[k + 1]

\* the pair the code builds from the input positions (2k-2, 2k-1)
BuiltPair(k) ==
    IF input[2 * k - 1] > input[2 * k]
    THEN [first |-> input[2 * k], second |-> input[2 * k - 1]]
    ELSE [first |-> input[2 * k - 1], second |-> input[2 * k]]

BuiltPairs == [k \in 1..(Len(input) \div 2) |-> BuiltPair(k)]

\* C9: every pair built satisfies low <= high and holds the two elements of its
\* input positions; the sorted pair list is ordered by non-decreasing high and is
\* a permutation of the pairs built; the initial main chain is the highs and pend
\* the lows in that order, so pend[k] <= mainChain[k].
C9_PairInvariants ==
    /\ pc \in {"vec_sortPairs", "deq_sortPairs"} =>
          /\ Len(pairs) = Len(input) \div 2
          /\ \A k \in DOMAIN pairs :
                /\ pairs[k].first <= pairs[k].second
                /\ {pairs[k].first, pairs[k].second} = {input[2 * k - 1], input[2 * k]}
    /\ pc \in {"vec_build", "deq_build", "vec_first", "deq_first"} =>
          /\ \A k \in DOMAIN pairs : pairs[k].first <= pairs[k].second
          /\ \A k \in 1..(Len(pairs) - 1) : pairs[k].second <= pairs[k + 1].second
          /\ SameMultiset(pairs, BuiltPairs)
    /\ pc \in {"vec_first", "deq_first"} =>
          /\ Len(mainChain) = Len(pairs)
          /\ Len(pend) = Len(pairs)
          /\ \A k \in DOMAIN pairs :
                /\ mainChain[k] = pairs[k].second
                /\ pend[k] = pairs[k].first
                /\ pend[k] <= mainChain[k]

C9_Witness ==
    /\ pc = "vec_first"
    /\ pairs # BuiltPairs
    /\ \E k \in DOMAIN pairs : input[2 * k - 1] > input[2 * k]
    /\ \E k \in DOMAIN pairs : pend[k] < mainChain[k]

(***************************************************************************)
(* The insertion order as the blocks of Jacobsthal thresholds              *)
(***************************************************************************)
\* J(n) as a number, for the J(n) below 2^16
SmallJ(n) == IF J(n) = <<>> THEN 0 ELSE J(n)[1]

\* how many of J(3), J(4), ... are below size
ThresholdCount(size) ==
    Cardinality({k \in 3..(size + 2) : Len(J(k)) <= 1 /\ SmallJ(k) < size})

\* the i-th threshold; the 0-th is 0
Threshold(i) == IF i = 0 THEN 0 ELSE SmallJ(i + 2)

\* hi, hi - 1, ..., lo
Descending(hi, lo) == [k \in 1..(hi - lo + 1) |-> hi - k + 1]

RECURSIVE ThresholdBlocks(_, _)
ThresholdBlocks(i, m) ==
    IF i > m THEN <<>>
    ELSE Descending(Threshold(i), Threshold(i - 1) + 1) \o ThresholdBlocks(i + 1, m)

BlockOrder(size) ==
    LET m == ThresholdCount(size)
        blocks == ThresholdBlocks(1, m) \o Descending(size - 1, Threshold(m) + 1)
    IN  blocks \o SelectSeq([k \in 1..size |-> k - 1],
                            LAMBDA v : v \notin RangeOf(blocks))

\* C10: for every pendSize >= 1 the planner's output is, in order: for each
\* Jacobsthal threshold T = J(3), J(4), ... below pendSize the indices T down to
\* the previous threshold + 1; then one block from pendSize-1 down to the last
\* threshold + 1; then every index not yet emitted, ascending.
C10_BlockOrder ==
    (pc = "plan_ret" /\ pendSize >= 1) => order = BlockOrder(pendSize)

C10_Witness ==
    /\ pc = "plan_ret"
    /\ pendSize = 13
    /\ order = <<3, 2, 1, 5, 4, 11, 10, 9, 8, 7, 6, 12, 0>>

(***************************************************************************)
(* The pend elements the insertion loop has read                           *)
(***************************************************************************)
\* pendIndex of the k-th pass of the loop (k = 1 is the pass of j = 0)
PendIndexRead(k) == insertionOrder[k] + 1

\* the highs of the sorted pairs: the main chain as first built
Highs == [k \in 1..Len(pairs) |-> pairs[k].second]

\* the pend elements read by the passes done so far
PendRead == [k \in 1..j |-> pend[PendIndexRead(k) + 1]]

\* C11: on the pairing path with pend length p, pend[0] is inserted once at the
\* front; the planner is run on p-1, and only when p > 1; every index the
\* insertion loop reads, order[j] + 1, lies in 1..p-1 and no index is read twice;
\* the main chain holds the highs, pend[0] and the pend elements read so far, and
\* after the loop every pend index 1..p-1 has been read once and the main chain
\* holds 2p elements.
C11_PendConsumption ==
    /\ pc \in {"vec_plan", "deq_plan"} =>
          /\ Len(pend) >= 1
          /\ mainChain = <<pend[1]>> \o Highs
    /\ (pc \in {"vec_planned", "deq_planned"} \/ InPlanner) =>
          /\ Len(pend) > 1
          /\ pendSize = Len(pend) - 1
          /\ mainChain = <<pend[1]>> \o Highs
    /\ pc \in {"vec_insert", "deq_insert"} =>
          /\ Len(insertionOrder) = Len(pend) - 1
          /\ \A k \in 1..Len(insertionOrder) : PendIndexRead(k) \in 1..(Len(pend) - 1)
          /\ \A a, b \in 1..Len(insertionOrder) :
                a # b => PendIndexRead(a) # PendIndexRead(b)
          /\ SameMultiset(mainChain, <<pend[1]>> \o Highs \o PendRead)
          /\ j = Len(insertionOrder) =>
                /\ {PendIndexRead(k) : k \in 1..j} = 1..(Len(pend) - 1)
                /\ Len(mainChain) = 2 * Len(pend)
                /\ SameMultiset(mainChain, PairValues)

C11_Witness ==
    /\ pc = "vec_insert"
    /\ Len(pend) = 6
    /\ insertionOrder = <<3, 2, 1, 4, 0>>
    /\ j = 5
    /\ Len(mainChain) = 12
    /\ \E a, b \in 2..6 : pend[a] # pend[b]

\* C12: for every input list the Jacobsthal-ordered sorter (ex02) and the basic
\* sorter (ex02_basic, pend elements inserted in index order) end with
\* element-wise identical sequences, in the vector and in the deque.
C12_SameResult ==
    /\ pc \in {"basic_deq_entry", "basic_ret"} => basicVectorData = vectorData
    /\ pc = "basic_ret" => basicDequeData = dequeData

C12_Witness ==
    /\ pc = "basic_ret"
    /\ Len(input) = 13
    /\ insertionOrder = <<3, 2, 1, 4, 0>>
    /\ basicVectorData = vectorData
    /\ basicDequeData = dequeData
    /\ vectorData # input
    /\ \E a, b \in 2..6 : a < b /\ pend[a] > pend[b]

(***************************************************************************)
(* The command line and the validated domain                               *)
(***************************************************************************)
IntMax == 2147483647

Validated(s) == \A k \in DOMAIN s : s[k] >= 1 /\ s[k] <= IntMax

SortEntered == pc \notin {"main_entry", "main_exit", "main_parsed"}

\* C13: parseInput lets sort() run only on a list whose elements all lie in
\* 1..2147483647; on such a list the sentinel -1 is never the last element, so
\* for every odd length above 10 the straggler is the last element, it is
\* inserted, and each driver returns as many elements as the input has.
C13_ValidatedStraggler ==
    /\ pc = "main_parsed" =>
          /\ Len(vectorData) = Len(argv)
          /\ dequeData = vectorData
          /\ Validated(vectorData)
    /\ SortEntered => Validated(input)
    /\ (SortEntered /\ Validated(input) /\ OddLength /\ Len(input) > 10) =>
          /\ pc \in {"vec_sortPairs", "deq_sortPairs"} =>
                (straggler = LastInput /\ straggler # -1)
          /\ pc \in {"vec_assign", "deq_assign"} =>
                /\ straggler = LastInput /\ straggler # -1
                /\ Len(mainChain) = Len(input)
                /\ CountIn(mainChain, LastInput) = CountIn(input, LastInput)
          /\ VecDone => Len(vectorData) = Len(input)
          /\ DeqDone => Len(dequeData) = Len(input)

C13_Witness ==
    /\ pc = "deq_ret"
    /\ Len(argv) = 13
    /\ argv[13] = <<"0", "7">>
    /\ argv[12] = <<"2", "1", "4", "7", "4", "8", "3", "6", "4", "7">>
    /\ input[13] = 7
    /\ straggler = 7
    /\ Len(dequeData) = 13 /\ Len(vectorData) = 13
    /\ dequeData[13] = IntMax

\* C14: for every pendSize >= 1 no Jacobsthal block emits index 0, the blocks
\* together emit every index of 1..pendSize-1, the last loop emits the single
\* index 0, so the output ends with 0; in the drivers pend[1] is the last pend
\* element inserted.
C14_IndexZeroLast ==
    /\ pc \in {"plan_groups", "plan_group"} =>
          /\ \A k \in DOMAIN order : order[k] \in 1..(pendSize - 1)
          /\ ~inserted[1]
    /\ (pc = "plan_rest" /\ rest = 0) =>
          /\ Len(order) = pendSize - 1
          /\ RangeOf(order) = 1..(pendSize - 1)
          /\ ~inserted[1]
    /\ (pc = "plan_rest" /\ rest >= 1) =>
          /\ Len(order) = pendSize
          /\ order[pendSize] = 0
          /\ RangeOf(SubSeq(order, 1, pendSize - 1)) = 1..(pendSize - 1)
    /\ (pc \in {"plan_ret", "vec_planned", "deq_planned"} /\ pendSize >= 1) =>
          /\ Len(order) = pendSize
          /\ order[pendSize] = 0
          /\ CountIn(order, 0) = 1
    /\ (pc \in {"vec_insert", "deq_insert"} /\ insertionOrder # <<>>) =>
          /\ PendIndexRead(Len(insertionOrder)) = 1
          /\ \A k \in 1..(Len(insertionOrder) - 1) : PendIndexRead(k) > 1
          /\ j = Len(insertionOrder) => PendRead[j] = pend[2]

C14_Witness ==
    /\ pc = "deq_insert"
    /\ j = Len(insertionOrder)
    /\ pendSize = 6
    /\ order = <<3, 2, 1, 5, 4, 0>>
    /\ insertionOrder = order
    /\ PendRead[j] = pend[2]
    /\ \E k \in 3..7 : pend[k] # pend[2]

====
